---- MODULE Spec2Model ----
(***************************************************************************)
(* Model of the bangs plugin for Pop launcher (src/src/main.rs,            *)
(* src/src/config.rs): the App session object, its three request handlers  *)
(* (search, complete, activate) and the string functions they rely on.     *)
(*                                                                         *)
(* A Rust String is a sequence of one-character strings; Option<T> is a    *)
(* sequence of length 0 (None) or 1 (Some).                                *)
(***************************************************************************)
EXTENDS Integers, Sequences, FiniteSets, TLC

(***************************************************************************)
(* Bounds of the model.                                                    *)
(***************************************************************************)
\* most words of a raw query
MaxWords == 2
\* largest configured max_limit
MaxLimit == 2
\* most records of a database file whose loading is checked on its own
MaxRecords == 3

(***************************************************************************)
(* Program constants.                                                      *)
(***************************************************************************)
PLUGIN_PREFIX == <<"!">>
BANGS_PLACEHOLDER == <<"{", "{", "{", "s", "}", "}", "}">>
BANG_INDICATOR == <<"!">>

(***************************************************************************)
(* Strings.                                                                *)
(***************************************************************************)
\* the printable ASCII characters, in code order from 32 (the double quote, the
\* backslash and the backquote, which no string of the model holds, by name)
Ascii ==
  << " ", "!", "dquote", "#", "$", "%", "&", "'", "(", ")", "*", "+", ",", "-", ".", "/",
     "0", "1", "2", "3", "4", "5", "6", "7", "8", "9", ":", ";", "<", "=", ">", "?",
     "@", "A", "B", "C", "D", "E", "F", "G", "H", "I", "J", "K", "L", "M", "N", "O",
     "P", "Q", "R", "S", "T", "U", "V", "W", "X", "Y", "Z", "[", "backslash", "]", "^", "_",
     "backquote", "a", "b", "c", "d", "e", "f", "g", "h", "i", "j", "k", "l", "m", "n", "o",
     "p", "q", "r", "s", "t", "u", "v", "w", "x", "y", "z", "{", "|", "}", "~" >>

\* character -> code
AsciiCode == [c \in {Ascii[i] : i \in 1..Len(Ascii)} |-> 31 + (CHOOSE i \in 1..Len(Ascii) : Ascii[i] = c)]

CharCode(c) == AsciiCode[c]

HexDigits == <<"0", "1", "2", "3", "4", "5", "6", "7", "8", "9", "A", "B", "C", "D", "E", "F">>

\* char::is_ascii_uppercase, is_ascii_lowercase, is_ascii_digit
IsUpper(c) == c \in {Ascii[i] : i \in 34..59}
IsLower(c) == c \in {Ascii[i] : i \in 66..91}
IsDigit(c) == c \in {Ascii[i] : i \in 17..26}

\* char::to_lowercase on ASCII
LowerChar(c) == IF IsUpper(c) THEN Ascii[CharCode(c) + 32 - 31] ELSE c

\* str::to_lowercase
ToLowercase(s) == [i \in 1..Len(s) |-> LowerChar(s[i])]

\* str::starts_with
StartsWith(s, p) == Len(s) >= Len(p) /\ SubSeq(s, 1, Len(p)) = p

\* str::strip_prefix: Some(rest) or None
StripPrefix(s, p) == IF StartsWith(s, p) THEN <<SubSeq(s, Len(p) + 1, Len(s))>> ELSE <<>>

\* str::contains: the needle is a contiguous substring of s
Contains(s, needle) ==
  \E i \in 0..(Len(s) - Len(needle)) : SubSeq(s, i + 1, i + Len(needle)) = needle

\* char::is_whitespace on ASCII
IsWhitespace(c) == c = " "

\* str::split_whitespace, collected: s is scanned from position i with the
\* token under construction cur and the finished tokens acc
RECURSIVE SplitFrom(_, _, _, _)
SplitFrom(s, i, cur, acc) ==
  IF i > Len(s)
    THEN (IF cur = <<>> THEN acc ELSE Append(acc, cur))
    ELSE IF IsWhitespace(s[i])
           THEN SplitFrom(s, i + 1, <<>>, IF cur = <<>> THEN acc ELSE Append(acc, cur))
           ELSE SplitFrom(s, i + 1, Append(cur, s[i]), acc)

SplitWhitespace(s) == SplitFrom(s, 1, <<>>, <<>>)

\* [String]::join
RECURSIVE Join(_, _)
Join(words, sep) ==
  IF words = <<>> THEN <<>>
  ELSE IF Len(words) = 1 THEN words[1]
  ELSE words[1] \o sep \o Join(Tail(words), sep)

\* str::replace: every non-overlapping match of from, left to right
RECURSIVE Replace(_, _, _)
Replace(s, from, to) ==
  IF s = <<>> THEN <<>>
  ELSE IF StartsWith(s, from)
    THEN to \o Replace(SubSeq(s, Len(from) + 1, Len(s)), from, to)
    ELSE <<Head(s)>> \o Replace(Tail(s), from, to)

\* urlencoding::encode of one character: the unreserved characters are kept,
\* every other byte becomes %XX
EncodeChar(c) ==
  IF IsUpper(c) \/ IsLower(c) \/ IsDigit(c) \/ c \in {"-", "_", ".", "~"}
    THEN <<c>>
    ELSE <<"%", HexDigits[(CharCode(c) \div 16) + 1], HexDigits[(CharCode(c) % 16) + 1]>>

\* urlencoding::encode
RECURSIVE Encode(_)
Encode(s) == IF s = <<>> THEN <<>> ELSE EncodeChar(Head(s)) \o Encode(Tail(s))

\* Ord for str: -1, 0 or 1, bytes compared left to right
RECURSIVE CmpStr(_, _)
CmpStr(a, b) ==
  IF a = <<>> /\ b = <<>> THEN 0
  ELSE IF a = <<>> THEN -1
  ELSE IF b = <<>> THEN 1
  ELSE IF CharCode(Head(a)) < CharCode(Head(b)) THEN -1
  ELSE IF CharCode(Head(a)) > CharCode(Head(b)) THEN 1
  ELSE CmpStr(Tail(a), Tail(b))

\* Ord for Option<String>: None is less than Some
CmpOpt(a, b) ==
  IF a = <<>> /\ b = <<>> THEN 0
  ELSE IF a = <<>> THEN -1
  ELSE IF b = <<>> THEN 1
  ELSE CmpStr(a[1], b[1])

\* lexicographic combination of comparison results, first difference wins
RECURSIVE CmpChain(_)
CmpChain(cs) ==
  IF cs = <<>> THEN 0 ELSE IF Head(cs) # 0 THEN Head(cs) ELSE CmpChain(Tail(cs))

(***************************************************************************)
(* Bang and Database (config.rs).                                          *)
(***************************************************************************)
\* derived Ord of BangMetadata: netloc, hostname, favicon, scheme, path
CmpMetadata(a, b) ==
  CmpChain(<< CmpStr(a.netloc, b.netloc), CmpOpt(a.hostname, b.hostname),
              CmpOpt(a.favicon, b.favicon), CmpStr(a.scheme, b.scheme),
              CmpStr(a.path, b.path) >>)

\* mutant of CmpBang: the url is compared before the trigger
CmpBang_UrlFirst(a, b) ==
  CmpChain(<< CmpStr(a.url, b.url), CmpStr(a.trigger, b.trigger),
              CmpMetadata(a.metadata, b.metadata), CmpStr(a.title, b.title),
              CmpStr(a.category, b.category), CmpStr(a.sub_category, b.sub_category) >>)

\* derived Ord of Bang: trigger, url, metadata, title, category, sub_category
CmpBang(a, b) ==
  CmpChain(<< CmpStr(a.trigger, b.trigger), CmpStr(a.url, b.url),
              CmpMetadata(a.metadata, b.metadata), CmpStr(a.title, b.title),
              CmpStr(a.category, b.category), CmpStr(a.sub_category, b.sub_category) >>)

\* Bang::format
BangFormat(b) ==
  b.trigger \o <<" ">> \o b.title \o <<" ">> \o b.category \o <<" ">>
    \o b.sub_category \o <<" ">> \o b.metadata.netloc

\* Bang::name
BangName(b) ==
  b.trigger \o <<" ", "|", " ">> \o b.title \o <<" ", "(">> \o b.metadata.netloc \o <<")">>

\* Bang::description
BangDescription(b) == b.category \o <<" ", ">", " ">> \o b.sub_category

\* mutant of InsertDesc: x goes before the first element it is strictly less
\* than, an ascending sort
RECURSIVE InsertDesc_Ascending(_, _)
InsertDesc_Ascending(sorted, x) ==
  IF sorted = <<>> THEN <<x>>
  ELSE IF CmpBang(x, Head(sorted)) < 0 THEN <<x>> \o sorted
  ELSE <<Head(sorted)>> \o InsertDesc_Ascending(Tail(sorted), x)

\* the stable sort of Database::load, sort_by(|a, b| b.partial_cmp(a)):
\* x goes before the first element it is strictly greater than
RECURSIVE InsertDesc(_, _)
InsertDesc(sorted, x) ==
  IF sorted = <<>> THEN <<x>>
  ELSE IF CmpBang(x, Head(sorted)) > 0 THEN <<x>> \o sorted
  ELSE <<Head(sorted)>> \o InsertDesc(Tail(sorted), x)

RECURSIVE SortDesc(_)
SortDesc(data) ==
  IF data = <<>> THEN <<>>
  ELSE InsertDesc(SortDesc(SubSeq(data, 1, Len(data) - 1)), data[Len(data)])

\* Database::load: the parsed records, sorted descending
DatabaseLoad(records) == SortDesc(records)

\* Database::get: the first bang with that trigger, or None
RECURSIVE DatabaseGet(_, _)
DatabaseGet(data, trigger) ==
  IF data = <<>> THEN <<>>
  ELSE IF Head(data).trigger = trigger THEN <<Head(data)>>
  ELSE DatabaseGet(Tail(data), trigger)

\* mutant of RetainUniqueUrls: the url of a kept bang is not inserted
RECURSIVE RetainUniqueUrls_NoInsert(_, _)
RetainUniqueUrls_NoInsert(data, urls) ==
  IF data = <<>> THEN <<>>
  ELSE IF Head(data).url \in urls THEN RetainUniqueUrls_NoInsert(Tail(data), urls)
  ELSE <<Head(data)>> \o RetainUniqueUrls_NoInsert(Tail(data), urls)

\* mutant of RetainUniqueUrls: of the bangs with one url the last is kept
RECURSIVE RetainUniqueUrls_KeepLast(_, _)
RetainUniqueUrls_KeepLast(data, urls) ==
  IF data = <<>> THEN <<>>
  ELSE IF \E i \in 2..Len(data) : data[i].url = Head(data).url
    THEN RetainUniqueUrls_KeepLast(Tail(data), urls)
  ELSE <<Head(data)>> \o RetainUniqueUrls_KeepLast(Tail(data), urls)

\* Database::retain with the closure of App::default, |b| urls.insert(b.url):
\* a bang is kept when its url was not seen before
RECURSIVE RetainUniqueUrls(_, _)
RetainUniqueUrls(data, urls) ==
  IF data = <<>> THEN <<>>
  ELSE IF Head(data).url \in urls THEN RetainUniqueUrls(Tail(data), urls)
  ELSE <<Head(data)>> \o RetainUniqueUrls(Tail(data), urls \cup {Head(data).url})

\* the cache of App::default: (trigger, lower-cased format) of every loaded bang
BuildCache(data) == [i \in 1..Len(data) |-> <<data[i].trigger, ToLowercase(BangFormat(data[i]))>>]

(***************************************************************************)
(* Inputs: the bang records of the database file, the plugin               *)
(* configuration and the requests of the launcher.                         *)
(***************************************************************************)
\* a record of the database file, deserialized into a Bang
MkBang(trigger, url, title, netloc) ==
  [ trigger |-> trigger, url |-> url,
    metadata |-> [ netloc |-> netloc, hostname |-> <<netloc>>, favicon |-> <<>>,
                   scheme |-> <<"h">>, path |-> <<"s">> ],
    title |-> title, category |-> <<"W">>, sub_category |-> <<"S">> ]

UrlG == <<"g", "?">> \o BANGS_PLACEHOLDER
UrlD == <<"d", "?">> \o BANGS_PLACEHOLDER \o <<"&">> \o BANGS_PLACEHOLDER

BangG == MkBang(<<"g">>, UrlG, <<"G", "G">>, <<"g", ".", "x">>)
BangD == MkBang(<<"d">>, UrlD, <<"D">>, <<"d", ".", "x">>)
\* a second record with the trigger and the url of BangG
BangG2 == MkBang(<<"g">>, UrlG, <<"A">>, <<"g", ".", "x">>)
\* a record with a trigger of its own and the url of BangG
BangA == MkBang(<<"a">>, UrlG, <<"A">>, <<"a", ".", "x">>)

\* a record of the database file: the fields of a Bang and a relevance, a
\* field the Bang struct does not have
MkRecord(bang, relevance) == bang @@ [relevance |-> relevance]

\* the derived Deserialize of Bang: the fields of the struct are read, a
\* field the struct does not have is ignored
Deserialize(record) ==
  [ trigger |-> record.trigger, url |-> record.url, metadata |-> record.metadata,
    title |-> record.title, category |-> record.category,
    sub_category |-> record.sub_category ]

\* serde_json::from_slice::<Vec<Bang>>: the bangs of the records, in file order
FromSlice(records) == [i \in 1..Len(records) |-> Deserialize(records[i])]

RecordG == MkRecord(BangG, 2)
RecordD == MkRecord(BangD, 1)
RecordG2 == MkRecord(BangG2, 3)
RecordA == MkRecord(BangA, 3)

\* the database files, records in file order
Sources ==
  { <<>>,
    <<RecordD, RecordG>>,
    <<RecordG2, RecordA, RecordG>> }

\* the database files whose loading is checked on its own: every sequence of
\* at most n records, so every arrival order and repeated records too
RECURSIVE FilesOf(_)
FilesOf(n) ==
  IF n = 0 THEN {<<>>}
  ELSE FilesOf(n - 1)
         \cup {Append(f, r) : f \in FilesOf(n - 1), r \in {RecordG, RecordD, RecordG2, RecordA}}

Files == FilesOf(MaxRecords)

\* the values of the default_bangs option
DefaultBangs == { <<>>, << <<"d">>, <<"q">>, <<"g">> >> }

\* AppConfig, as loaded
Configs ==
  [ max_limit : 0..MaxLimit, default_bangs : DefaultBangs, unique_bangs : BOOLEAN ]

\* the words of the raw queries; the empty word makes a run of spaces
Words == { <<>>, <<"!", "g">>, <<"!", "G">>, <<"!">>, <<"G">>, <<"!", "a">> }

\* every sequence of at most n words
RECURSIVE WordSeqs(_)
WordSeqs(n) ==
  IF n = 0 THEN {<<>>}
  ELSE WordSeqs(n - 1) \cup {Append(ws, w) : ws \in WordSeqs(n - 1), w \in Words}

\* the raw queries: a single word, or the plugin prefix followed by words
\* that single spaces separate
RawQueries ==
  Words \cup {PLUGIN_PREFIX \o Join(ws, <<" ">>) : ws \in WordSeqs(MaxWords)}

\* the identifiers a Complete or Activate request carries
RequestIds == 1..(MaxLimit + 1)

(***************************************************************************)
(* State.                                                                  *)
(***************************************************************************)
VARIABLES
  file,      \* the records of the database file
  operands,  \* the two bangs a comparison is made of
  ordering,  \* the result of that comparison
  config,    \* App.config
  db,        \* App.db: the data of the Database
  cache,     \* App.cache: (trigger, searchable text) pairs
  search,    \* App.search: the tokens of the query
  results,   \* App.results: identifier -> trigger
  out,       \* the responses written to App.out by the last request
  opened,    \* the urls handed to xdg-open by the last request
  req,       \* the last request read by main
  running,   \* main's loop has not left
  issued,    \* the identifiers of the items the most recent search sent
  hits       \* the cache positions whose bang the most recent search took

vars == <<file, operands, ordering, config, db, cache, search, results, out, opened, req, running, issued, hits>>

\* PluginResponse values
RespAppend(id, name, description) ==
  [type |-> "Append", id |-> id, name |-> name, description |-> description]
RespFinished == [type |-> "Finished"]
RespFill(text) == [type |-> "Fill", text |-> text]
RespClose == [type |-> "Close"]

\* the item of send_empty_launcher_item
EmptyLauncherItem ==
  RespAppend(1, <<"F", "i", "n", "i", "s", "h">>,
             <<"L", "a", "u", "n", "c", "h", " ", "t", "h", "i", "s", " ", "i", "t", "e", "m", " ",
               "t", "o", " ", "o", "p", "e", "n", " ", "a", "l", "l", " ", "y", "o", "u", "r", " ",
               "U", "R", "L", "s">>)

\* the cache App::default builds from the loaded database
DefaultCache(records) == BuildCache(DatabaseLoad(FromSlice(records)))

\* the database App::default leaves: the loaded one, without the bangs with
\* an url seen before when unique_bangs is set
DefaultDb(records, unique_bangs) ==
  IF unique_bangs THEN RetainUniqueUrls(DatabaseLoad(FromSlice(records)), {})
  ELSE DatabaseLoad(FromSlice(records))

\* App::default: load and sort the database, build the cache from it, then
\* drop the bangs with an url seen before when unique_bangs is set
Init ==
  \E records \in Sources, cfg \in Configs :
    /\ file = records
    /\ operands = <<>>
    /\ ordering = <<>>
    /\ config = cfg
    /\ cache = DefaultCache(records)
    /\ db = DefaultDb(records, cfg.unique_bangs)
    /\ search = <<>>
    /\ results = <<>>
    /\ out = <<>>
    /\ opened = <<>>
    /\ req = [kind |-> "None"]
    /\ running = TRUE
    /\ issued = {}
    /\ hits = <<>>

(***************************************************************************)
(* App::search.                                                            *)
(***************************************************************************)
\* mutant of ScanCache: one bang more than max_limit is taken
RECURSIVE ScanCache_OneOverLimit(_, _, _, _, _)
ScanCache_OneOverLimit(entries, data, query, i, n) ==
  IF n < 0 \/ i > Len(entries) THEN <<>>
  ELSE IF Contains(entries[i][2], query) /\ DatabaseGet(data, entries[i][1]) # <<>>
    THEN <<i>> \o ScanCache_OneOverLimit(entries, data, query, i + 1, n - 1)
    ELSE ScanCache_OneOverLimit(entries, data, query, i + 1, n)

\* mutant of ScanCache: take(max_limit) comes before the filters
RECURSIVE ScanCache_TakeFirst(_, _, _, _, _)
ScanCache_TakeFirst(entries, data, query, i, n) ==
  IF n = 0 \/ i > Len(entries) THEN <<>>
  ELSE IF Contains(entries[i][2], query) /\ DatabaseGet(data, entries[i][1]) # <<>>
    THEN <<i>> \o ScanCache_TakeFirst(entries, data, query, i + 1, n - 1)
    ELSE ScanCache_TakeFirst(entries, data, query, i + 1, n - 1)

\* the iterator chain over the cache: filter on contains, filter_map on
\* Database::get, take(max_limit); the cache positions from i on whose bang is
\* taken, with n bangs still to take
RECURSIVE ScanCache(_, _, _, _, _)
ScanCache(entries, data, query, i, n) ==
  IF n = 0 \/ i > Len(entries) THEN <<>>
  ELSE IF Contains(entries[i][2], query) /\ DatabaseGet(data, entries[i][1]) # <<>>
    THEN <<i>> \o ScanCache(entries, data, query, i + 1, n - 1)
    ELSE ScanCache(entries, data, query, i + 1, n)

\* the bang the chain yields for cache position p
BangAt(entries, data, p) == DatabaseGet(data, entries[p][1])[1]

\* the for_each of the chain: the item sent for the id-th bang taken
SearchItems(entries, data, taken) ==
  [id \in 1..Len(taken) |->
     RespAppend(id, BangName(BangAt(entries, data, taken[id])),
                BangDescription(BangAt(entries, data, taken[id])))]

\* the new results map of the chain
SearchResults(entries, data, taken) ==
  IF taken = <<>> THEN <<>>
  ELSE [id \in 1..Len(taken) |-> BangAt(entries, data, taken[id]).trigger]

\* self.search.last().unwrap_or(&String::new())
LastOrEmpty(tokens) == IF tokens = <<>> THEN <<>> ELSE tokens[Len(tokens)]

\* the ids of the Append responses of a response sequence
AppendIds(resps) == {resps[i].id : i \in {j \in 1..Len(resps) : resps[j].type = "Append"}}

\* the state a search request leaves: the tokens and the results map it
\* stores, the cache positions it took and the responses it sent
SearchDone(query, tokens, table, taken, sent) ==
  /\ running
  /\ req' = [kind |-> "Search", query |-> query]
  /\ search' = tokens
  /\ results' = table
  /\ hits' = taken
  /\ out' = sent
  /\ issued' = AppendIds(sent)
  /\ opened' = <<>>
  /\ UNCHANGED <<file, operands, ordering, config, db, cache, running>>

\* mutant of SearchBang: Finished is sent before the items
SearchBang_FinishedFirst(query, tokens, taken) ==
  SearchDone(query, tokens, SearchResults(cache, db, taken), taken,
             IF taken = <<>> THEN <<RespFinished, EmptyLauncherItem>>
             ELSE <<RespFinished>> \o SearchItems(cache, db, taken))

\* the last token is a bang: the chain has taken the cache positions taken,
\* the new map replaces self.results; the extra item is sent when id == 0
SearchBang(query, tokens, taken) ==
  SearchDone(query, tokens, SearchResults(cache, db, taken), taken,
             IF taken = <<>> THEN <<EmptyLauncherItem, RespFinished>>
             ELSE SearchItems(cache, db, taken) \o <<RespFinished>>)

\* if let Some(query) = last.strip_prefix(BANG_INDICATOR), with bang the
\* value of strip_prefix; the else branch leaves self.results alone
SearchLast(query, tokens, bang) ==
  IF bang = <<>>
    THEN SearchDone(query, tokens, results, <<>>, <<EmptyLauncherItem, RespFinished>>)
    ELSE SearchBang(query, tokens,
                    ScanCache(cache, db, ToLowercase(bang[1]), 1, config.max_limit))

\* self.search = search.split_whitespace().collect()
SearchTokens(query, tokens) ==
  SearchLast(query, tokens, StripPrefix(LastOrEmpty(tokens), BANG_INDICATOR))

\* mutant of SearchStripped: the new tokens are pushed after the old ones
SearchStripped_Extend(query, stripped) ==
  IF stripped = <<>>
    THEN SearchDone(query, search, results, <<>>, <<RespFinished>>)
    ELSE SearchTokens(query, search \o SplitWhitespace(stripped[1]))

\* mutant of SearchStripped: the tokens are split from the query itself, the
\* prefix still on it
SearchStripped_KeepPrefix(query, stripped) ==
  IF stripped = <<>>
    THEN SearchDone(query, search, results, <<>>, <<RespFinished>>)
    ELSE SearchTokens(query, SplitWhitespace(query))

\* if let Some(search) = query.strip_prefix(PLUGIN_PREFIX), with stripped the
\* value of strip_prefix; without the prefix only Finished is sent
SearchStripped(query, stripped) ==
  IF stripped = <<>>
    THEN SearchDone(query, search, results, <<>>, <<RespFinished>>)
    ELSE SearchTokens(query, SplitWhitespace(stripped[1]))

Search(query) == SearchStripped(query, StripPrefix(query, PLUGIN_PREFIX))

(***************************************************************************)
(* App::complete.                                                          *)
(***************************************************************************)
\* mutant of PopPush: the push without the pop
PopPush_NoPop(tokens, token) == Append(tokens, token)

\* Vec::pop followed by Vec::push: pop leaves an empty vector empty
PopPush(tokens, token) ==
  Append(IF tokens = <<>> THEN <<>> ELSE SubSeq(tokens, 1, Len(tokens) - 1), token)

\* mutant of FillText: the tokens are joined without a separator
FillText_Unseparated(tokens) == PLUGIN_PREFIX \o <<" ">> \o Join(tokens, <<>>)

\* format!("{} {}", PLUGIN_PREFIX, self.search.join(" "))
FillText(tokens) == PLUGIN_PREFIX \o <<" ">> \o Join(tokens, <<" ">>)

\* mutant of ResultsGet: an identifier past the last one yields the last entry
ResultsGet_Clamped(table, id) ==
  IF id \in DOMAIN table THEN <<table[id]>>
  ELSE IF table # <<>> THEN <<table[Len(table)]>> ELSE <<>>

\* HashMap::get on self.results: Some(trigger) or None
ResultsGet(table, id) == IF id \in DOMAIN table THEN <<table[id]>> ELSE <<>>

\* if let Some(bang) = self.db.get(trigger), with bang the value of get: the
\* last token is popped, the bang is pushed and the query is filled
CompleteBang(bang) ==
  IF bang = <<>>
    THEN search' = search /\ out' = <<>>
    ELSE /\ search' = PopPush(search, BANG_INDICATOR \o bang[1].trigger)
         /\ out' = <<RespFill(FillText(PopPush(search, BANG_INDICATOR \o bang[1].trigger)))>>

\* if let Some(trigger) = self.results.get(&id), with trigger the value of get
CompleteTrigger(trigger) ==
  IF trigger = <<>>
    THEN search' = search /\ out' = <<>>
    ELSE CompleteBang(DatabaseGet(db, trigger[1]))

Complete(id) ==
  /\ running
  /\ req' = [kind |-> "Complete", id |-> id]
  /\ CompleteTrigger(ResultsGet(results, id))
  /\ opened' = <<>>
  /\ UNCHANGED <<file, operands, ordering, config, db, cache, results, running, issued, hits>>

(***************************************************************************)
(* App::activate.                                                          *)
(***************************************************************************)
\* App::get_bangs_from_search_query: filter_map on strip_prefix
RECURSIVE GetBangsFromSearchQuery(_)
GetBangsFromSearchQuery(tokens) ==
  IF tokens = <<>> THEN <<>>
  ELSE StripPrefix(Head(tokens), BANG_INDICATOR) \o GetBangsFromSearchQuery(Tail(tokens))

\* App::get_search_query: the tokens that do not start with the indicator, joined
NotBang(token) == ~StartsWith(token, BANG_INDICATOR)
GetSearchQuery(tokens) == Join(SelectSeq(tokens, NotBang), <<" ">>)

\* mutant of BangsToOpen: default_bangs is appended whatever the query holds
BangsToOpen_AlwaysDefaults(tokens, defaults) == GetBangsFromSearchQuery(tokens) \o defaults

\* the triggers activate opens: those of the query, or default_bangs when
\* the query has none
BangsToOpen(tokens, defaults) ==
  IF GetBangsFromSearchQuery(tokens) = <<>> THEN defaults
  ELSE GetBangsFromSearchQuery(tokens)

\* mutant of OpenAll: the loop ends at the first trigger that has no bang
RECURSIVE OpenAll_StopAtMissing(_, _, _)
OpenAll_StopAtMissing(data, triggers, encoded_query) ==
  IF triggers = <<>> \/ DatabaseGet(data, Head(triggers)) = <<>> THEN <<>>
  ELSE <<Replace(DatabaseGet(data, Head(triggers))[1].url, BANGS_PLACEHOLDER, encoded_query)>>
       \o OpenAll_StopAtMissing(data, Tail(triggers), encoded_query)

\* the for loop of activate: the urls opened for the triggers, in order
RECURSIVE OpenAll(_, _, _)
OpenAll(data, triggers, encoded_query) ==
  IF triggers = <<>> THEN <<>>
  ELSE (IF DatabaseGet(data, Head(triggers)) = <<>> THEN <<>>
        ELSE <<Replace(DatabaseGet(data, Head(triggers))[1].url, BANGS_PLACEHOLDER,
                       encoded_query)>>)
       \o OpenAll(data, Tail(triggers), encoded_query)

\* mutant of Activate: the tokens are cleared once the urls are opened
Activate_Reset(id) ==
  /\ running
  /\ req' = [kind |-> "Activate", id |-> id]
  /\ opened' = OpenAll(db, BangsToOpen(search, config.default_bangs),
                       Encode(GetSearchQuery(search)))
  /\ out' = <<RespClose>>
  /\ search' = <<>>
  /\ UNCHANGED <<file, operands, ordering, config, db, cache, results, running, issued, hits>>

Activate(id) ==
  /\ running
  /\ req' = [kind |-> "Activate", id |-> id]
  /\ opened' = OpenAll(db, BangsToOpen(search, config.default_bangs),
                       Encode(GetSearchQuery(search)))
  /\ out' = <<RespClose>>
  /\ UNCHANGED <<file, operands, ordering, config, db, cache, search, results, running, issued, hits>>

(***************************************************************************)
(* main: the requests that are none of the three, and Exit.                *)
(***************************************************************************)
\* the search the launcher sends once a Fill has set its query: the query is
\* the text of the Fill
SearchFill ==
  /\ req.kind = "Complete"
  /\ out # <<>>
  /\ Search(out[1].text)

\* a request matched by `_ => ()`, or a line that is no request
Ignored(kind) ==
  /\ running
  /\ req' = [kind |-> kind]
  /\ out' = <<>>
  /\ opened' = <<>>
  /\ UNCHANGED <<file, operands, ordering, config, db, cache, search, results, running, issued, hits>>

\* a line that cannot be read as a string (bytes that are no UTF-8, a read
\* error): Result::unwrap in json_input_stream panics and the process ends
Unreadable ==
  /\ running
  /\ req' = [kind |-> "Unreadable"]
  /\ running' = FALSE
  /\ out' = <<>>
  /\ opened' = <<>>
  /\ UNCHANGED <<file, operands, ordering, config, db, cache, search, results, issued, hits>>

Exit ==
  /\ running
  /\ req' = [kind |-> "Exit"]
  /\ running' = FALSE
  /\ out' = <<>>
  /\ opened' = <<>>
  /\ UNCHANGED <<file, operands, ordering, config, db, cache, search, results, issued, hits>>

Next ==
  \/ \E query \in RawQueries : Search(query)
  \/ \E id \in RequestIds : Complete(id)
  \/ SearchFill
  \/ \E id \in RequestIds : Activate(id)
  \/ \E kind \in {"Other", "Malformed"} : Ignored(kind)
  \/ Unreadable
  \/ Exit

Spec == Init /\ [][Next]_vars

(***************************************************************************)
(* App::default on its own: the database file holds any records in any     *)
(* order, and the application is constructed from it.                      *)
(***************************************************************************)
\* the database file and the configuration are there, App::default has not run
InitLoad ==
  \E records \in Files, cfg \in Configs :
    /\ file = records
    /\ operands = <<>>
    /\ ordering = <<>>
    /\ config = cfg
    /\ cache = <<>>
    /\ db = <<>>
    /\ search = <<>>
    /\ results = <<>>
    /\ out = <<>>
    /\ opened = <<>>
    /\ req = [kind |-> "Start"]
    /\ running = FALSE
    /\ issued = {}
    /\ hits = <<>>

\* App::default, the first statement of main
Default ==
  /\ req.kind = "Start"
  /\ req' = [kind |-> "None"]
  /\ cache' = DefaultCache(file)
  /\ db' = DefaultDb(file, config.unique_bangs)
  /\ running' = TRUE
  /\ UNCHANGED <<file, operands, ordering, config, search, results, out, opened, issued, hits>>

NextLoad == Default

SpecLoad == InitLoad /\ [][NextLoad]_vars

(***************************************************************************)
(* The comparison of two bangs on its own, as the tests of config.rs make  *)
(* it.                                                                     *)
(***************************************************************************)
\* the bangs compared: mock_bang and the bangs that differ from it in the
\* trigger, the url and the title
CmpBangs ==
  { MkBang(trigger, url, title, <<"d", ".", "x">>) :
      trigger \in {<<"d", "d", "g">>, <<"b", "d", "g">>},
      url \in {<<"d", "?">> \o BANGS_PLACEHOLDER, <<"b", "?">> \o BANGS_PLACEHOLDER},
      title \in {<<"D">>, <<"B">>, <<"D", "u">>} }

\* two bangs are there, nothing is compared yet
InitCmp ==
  \E a \in CmpBangs, b \in CmpBangs :
    /\ file = <<>>
    /\ operands = <<a, b>>
    /\ ordering = <<>>
    /\ config = [max_limit |-> 0, default_bangs |-> <<>>, unique_bangs |-> FALSE]
    /\ cache = <<>>
    /\ db = <<>>
    /\ search = <<>>
    /\ results = <<>>
    /\ out = <<>>
    /\ opened = <<>>
    /\ req = [kind |-> "Start"]
    /\ running = FALSE
    /\ issued = {}
    /\ hits = <<>>

\* the comparison of the two bangs, Bang::partial_cmp
Compare ==
  /\ operands # <<>>
  /\ ordering = <<>>
  /\ ordering' = <<CmpBang(operands[1], operands[2])>>
  /\ UNCHANGED <<file, operands, config, db, cache, search, results, out, opened, req,
                 running, issued, hits>>

NextCmp == Compare

SpecCmp == InitCmp /\ [][NextCmp]_vars

(***************************************************************************)
(* Properties.                                                             *)
(***************************************************************************)
\* the last request was a search whose query carries the plugin prefix, so
\* search holds the tokens of that query
SearchedWithPrefix == req.kind = "Search" /\ StartsWith(req.query, PLUGIN_PREFIX)

\* a token is a shortcut token: its first character is the indicator
IsShortcut(token) == Len(token) >= 1 /\ token[1] = "!"

\* the final token of the tokens is a shortcut token
LastIsShortcut(tokens) == tokens # <<>> /\ IsShortcut(tokens[Len(tokens)])

\* the responses hold a Fill
HasFill(resps) == \E i \in 1..Len(resps) : resps[i].type = "Fill"

\* C1: after a search (here: one that carries the plugin prefix) the results
\* map holds only identifiers that this search issued, and a Complete that
\* carries an identifier the most recent search did not issue sends no fill.
C1_StaleIdentifiersAbsent ==
  /\ SearchedWithPrefix => DOMAIN results \subseteq issued
  /\ (req.kind = "Complete" /\ req.id \notin issued) => ~HasFill(out)

\* C3: a search whose final token is no shortcut token, or that has no
\* tokens, sends the Finish item followed by Finished and leaves none of the
\* previous entries in the results map.
C3_FinishClearsResults ==
  [][ (req'.kind = "Search" /\ StartsWith(req'.query, PLUGIN_PREFIX) /\ ~LastIsShortcut(search')) =>
        /\ out' = <<EmptyLauncherItem, RespFinished>>
        /\ \A id \in DOMAIN results \cap DOMAIN results' : results'[id] # results[id] ]_vars

\* C4: a Complete whose identifier is not in the results map leaves the tokens
\* and the results map as they were and sends no response.
C4_AbsentIdIsNoOp ==
  [][ (req'.kind = "Complete" /\ req'.id \notin DOMAIN results) =>
        (search' = search /\ results' = results /\ out' = <<>>) ]_vars

\* C4 witness: a Complete with an absent identifier was handled while the
\* results map and the tokens were not empty.
C4_Witness ==
  /\ req.kind = "Complete"
  /\ req.id \notin DOMAIN results
  /\ results # <<>>
  /\ search # <<>>

\* the first n of the tokens, joined by single spaces
RECURSIVE SpaceJoined(_, _)
SpaceJoined(tokens, n) ==
  IF n = 0 THEN <<>>
  ELSE IF n = 1 THEN tokens[1]
  ELSE SpaceJoined(tokens, n - 1) \o <<" ">> \o tokens[n]

\* the tokens with the last one, if there is one, replaced by token
LastReplaced(tokens, token) ==
  [i \in 1..(IF tokens = <<>> THEN 1 ELSE Len(tokens)) |->
     IF i < Len(tokens) THEN tokens[i] ELSE token]

\* C5: a Complete whose identifier the results map maps to trigger t replaces
\* the last token by indicator + t, keeps the earlier tokens and the results
\* map, and sends exactly one Fill: the query rebuilt from the new tokens,
\* joined by single spaces after the plugin prefix and a space.
C5_CompleteReplacesLastToken ==
  [][ (req'.kind = "Complete" /\ req'.id \in DOMAIN results) =>
        /\ search' = LastReplaced(search, <<"!">> \o results[req'.id])
        /\ results' = results
        /\ out' = << [type |-> "Fill",
                      text |-> <<"!", " ">> \o SpaceJoined(search', Len(search'))] >> ]_vars

\* C5 witness: a Complete has replaced the open token "!" after the free-text
\* token "G" by "!g" and filled "! G !g".
C5_Witness ==
  /\ req.kind = "Complete"
  /\ req.id \in DOMAIN results
  /\ search = << <<"G">>, <<"!", "g">> >>
  /\ out = << [type |-> "Fill", text |-> <<"!", " ", "G", " ", "!", "g">>] >>

\* the triggers of the shortcut tokens, in token order
ShortcutTriggers(tokens) ==
  [i \in 1..Len(SelectSeq(tokens, IsShortcut)) |->
     SubSeq(SelectSeq(tokens, IsShortcut)[i], 2, Len(SelectSeq(tokens, IsShortcut)[i]))]

\* the trigger has an entry in the database
Resolves(trigger) == \E j \in 1..Len(db) : db[j].trigger = trigger

\* the entry Database::get finds for a trigger that resolves: the first one
EntryOf(trigger) ==
  db[CHOOSE j \in 1..Len(db) :
       db[j].trigger = trigger /\ \A k \in 1..(j - 1) : db[k].trigger # trigger]

IsFreeText(token) == ~IsShortcut(token)

\* the free-text tokens joined by single spaces
FreeText(tokens) ==
  SpaceJoined(SelectSeq(tokens, IsFreeText), Len(SelectSeq(tokens, IsFreeText)))

\* the destination of a trigger that resolves: the url of its entry with the
\* placeholder replaced by the escaped free text
Destination(trigger, tokens) ==
  Replace(EntryOf(trigger).url, BANGS_PLACEHOLDER, Encode(FreeText(tokens)))

\* the destinations of those of the triggers that resolve, in order
Destinations(triggers, tokens) ==
  [i \in 1..Len(SelectSeq(triggers, Resolves)) |->
     Destination(SelectSeq(triggers, Resolves)[i], tokens)]

\* C6: an Activate opens, for each shortcut token in token order whose trigger
\* resolves, the destination of the trigger, skips the triggers that do not
\* resolve, and sends exactly one Close, also when nothing is opened.
C6_ActivateDispatches ==
  req.kind = "Activate" =>
    /\ out = <<RespClose>>
    /\ ShortcutTriggers(search) # <<>> =>
         opened = Destinations(ShortcutTriggers(search), search)
    /\ (ShortcutTriggers(search) = <<>> /\ config.default_bangs = <<>>) => opened = <<>>
    /\ db = <<>> => opened = <<>>

\* C6 witness: an Activate has skipped the trigger "G", which has no entry,
\* and opened the destination of the trigger "g" after it.
C6_Witness ==
  /\ req.kind = "Activate"
  /\ search = << <<"!", "G">>, <<"!", "g">> >>
  /\ opened = << <<"g", "?">> >>
  /\ out = <<RespClose>>

\* C7: an Activate opens the destinations of the default triggers, in list
\* order, when the tokens hold no shortcut token; when they hold one, it opens
\* one destination per shortcut token that resolves and none else.
C7_DefaultsOnlyWithoutShortcuts ==
  req.kind = "Activate" =>
    /\ (\A i \in 1..Len(search) : ~IsShortcut(search[i])) =>
         opened = Destinations(config.default_bangs, search)
    /\ (\E i \in 1..Len(search) : IsShortcut(search[i])) =>
         /\ Len(opened) =
              Cardinality({i \in 1..Len(search) :
                 IsShortcut(search[i]) /\ Resolves(SubSeq(search[i], 2, Len(search[i])))})
         /\ \A n \in 1..Len(opened) :
              \E i \in 1..Len(search) :
                /\ IsShortcut(search[i])
                /\ Resolves(SubSeq(search[i], 2, Len(search[i])))
                /\ opened[n] = Destination(SubSeq(search[i], 2, Len(search[i])), search)

\* C7 witness: an Activate on the tokens "G G" has opened the destinations of
\* the default triggers "d" and "g", and skipped the default "q".
C7_Witness ==
  /\ req.kind = "Activate"
  /\ search = << <<"G">>, <<"G">> >>
  /\ config.default_bangs = << <<"d">>, <<"q">>, <<"g">> >>
  /\ opened = << <<"d", "?", "G", "%", "2", "0", "G", "&", "G", "%", "2", "0", "G">>,
                 <<"g", "?", "G", "%", "2", "0", "G">> >>

\* needle is a contiguous substring of text
IsSubstring(needle, text) ==
  \E a \in 1..(Len(text) - Len(needle) + 1) :
    \A j \in 1..Len(needle) : text[a + j - 1] = needle[j]

\* the candidate trigger text of the final token, lower-cased
Needle(tokens) == ToLowercase(SubSeq(tokens[Len(tokens)], 2, Len(tokens[Len(tokens)])))

\* the positions of the index entries whose searchable text contains the needle
Matching(needle) == {p \in 1..Len(cache) : IsSubstring(needle, cache[p][2])}

\* the i-th position, in index order, of a set of positions
NthOf(positions, i) ==
  CHOOSE p \in positions : Cardinality({q \in positions : q < p}) = i - 1

Min(a, b) == IF a <= b THEN a ELSE b

\* the ids of the Append responses, in the order sent
AppendIdSeq(resps) ==
  [i \in 1..Len(SelectSeq(resps, LAMBDA r : r.type = "Append")) |->
     SelectSeq(resps, LAMBDA r : r.type = "Append")[i].id]

\* C2: after a search whose final token is a shortcut token, the results map
\* is exactly 1..k -> trigger of the i-th index entry that contains the
\* lower-cased needle, with k the smaller of max_limit and the number of such
\* entries, and (when k > 0) the items sent carry the ids 1..k in that order.
C2_ResultsAreFirstMatches ==
  (SearchedWithPrefix /\ LastIsShortcut(search)) =>
    /\ DOMAIN results = 1..Min(config.max_limit, Cardinality(Matching(Needle(search))))
    /\ \A i \in DOMAIN results :
         results[i] = cache[NthOf(Matching(Needle(search)), i)][1]
    /\ results # <<>> => AppendIdSeq(out) = [i \in 1..Len(results) |-> i]

\* the runs of s: the maximal intervals of characters that are not spaces
Runs(s) ==
  {r \in (1..Len(s)) \X (1..Len(s)) :
     /\ r[1] <= r[2]
     /\ \A i \in r[1]..r[2] : s[i] # " "
     /\ r[1] = 1 \/ s[r[1] - 1] = " "
     /\ r[2] = Len(s) \/ s[r[2] + 1] = " "}

\* the tokens of s: its runs, in the order of their positions
TokensOf(s) ==
  [i \in 1..Cardinality(Runs(s)) |->
     LET r == CHOOSE x \in Runs(s) : Cardinality({y \in Runs(s) : y[1] < x[1]}) = i - 1
     IN SubSeq(s, r[1], r[2])]

\* C8: the first token of the raw input is a shortcut token when it starts
\* with the indicator: after Search("!g"), with "g" in the database and
\* max_limit >= 1, identifier 1 of the results map is "g".
C8_FirstTokenIsShortcut ==
  (/\ req.kind = "Search"
   /\ req.query = <<"!", "g">>
   /\ Resolves(<<"g">>)
   /\ config.max_limit >= 1)
    => (results # <<>> /\ results[1] = <<"g">>)

\* C8, amended: the tokens are those of the raw query after its leading
\* plugin prefix, and a token is a shortcut token iff it starts with the
\* indicator: a search whose last token is not one sends the Finish item;
\* Search("!!g"), with "g" in the database and max_limit >= 1, sends the item
\* of "g" with id 1 and sets identifier 1 of the results map to "g"; an
\* Activate on the tokens of Search("!!g G") opens the destination of "g"
\* with "G" substituted.
C8_TokensFollowPluginPrefix ==
  /\ SearchedWithPrefix => search = TokensOf(Tail(req.query))
  /\ (SearchedWithPrefix /\ ~LastIsShortcut(search)) => out = <<EmptyLauncherItem, RespFinished>>
  /\ (/\ req.kind = "Search"
      /\ req.query = <<"!", "!", "g">>
      /\ Resolves(<<"g">>)
      /\ config.max_limit >= 1)
       => /\ results # <<>> /\ results[1] = <<"g">>
          /\ out[1] = RespAppend(1, BangName(EntryOf(<<"g">>)), BangDescription(EntryOf(<<"g">>)))
  /\ (req.kind = "Search" /\ req.query = <<"!", "!", "g", " ", "G">>)
       => search = << <<"!", "g">>, <<"G">> >>
  /\ (req.kind = "Activate" /\ search = << <<"!", "g">>, <<"G">> >> /\ Resolves(<<"g">>))
       => opened = << <<"g", "?", "G">> >>

\* C8 witness: an Activate on the tokens "!g" "G" has opened "g?G".
C8_Witness ==
  /\ req.kind = "Activate"
  /\ search = << <<"!", "g">>, <<"G">> >>
  /\ opened = << <<"g", "?", "G">> >>

\* the index entry at position p is the entry of a bang of the database
InCatalog(p) ==
  \E j \in 1..Len(db) :
    cache[p] = <<db[j].trigger, ToLowercase(BangFormat(db[j]))>>

C10_EmptyNeedleListsCatalog ==
  (SearchedWithPrefix /\ LastIsShortcut(search) /\ Needle(search) = <<>>) =>
    /\ DOMAIN results = 1..Min(config.max_limit, Len(db))
    /\ \A i \in DOMAIN results : results[i] = db[i].trigger

\* C11: in every state the cache (the search index) is as long as the
\* database and the cache entry at position i carries the trigger of the bang
\* at position i, also when unique_bangs removed bangs
C11_IndexParallelsCatalog ==
  /\ Len(cache) = Len(db)
  /\ \A i \in 1..Len(db) : cache[i][1] = db[i].trigger

\* App::default has run
Constructed == req.kind # "Start"

\* C12: with unique_bangs set, the urls of the bangs of the database App::default
\* leaves are pairwise distinct
C12_DedupUrlsDistinct ==
  (Constructed /\ config.unique_bangs) =>
    \A i \in 1..Len(db) : \A j \in 1..Len(db) : i # j => db[i].url # db[j].url

\* unique_bangs removed a bang and left two bangs, of different urls
C12_Witness ==
  /\ Constructed
  /\ config.unique_bangs
  /\ Cardinality({FromSlice(file)[i] : i \in 1..Len(file)}) = 3
  /\ Len(db) = 2

\* the bangs of the file in the order Database::load gives them
Loaded == DatabaseLoad(FromSlice(file))

\* the positions of a sequence of bangs that hold the first bang of an url
FirstOfUrl(data) ==
  {i \in 1..Len(data) : \A j \in 1..(i - 1) : data[j].url # data[i].url}

\* the relevance the file gives a bang
RelevanceOf(bang) ==
  file[CHOOSE i \in 1..Len(file) : Deserialize(file[i]) = bang].relevance

\* C13: with unique_bangs set, of every url of the file exactly one bang is
\* left, the first of that url in the loaded order, which is the one of the
\* highest relevance among the records of that url; the bangs left keep their
\* order
C13_DedupKeepsHigherRelevance ==
  (Constructed /\ config.unique_bangs) =>
    /\ \A i \in 1..Len(file) :
         Cardinality({k \in 1..Len(db) : db[k].url = file[i].url}) = 1
    /\ Len(db) = Cardinality(FirstOfUrl(Loaded))
    /\ \A k \in 1..Len(db) : db[k] = Loaded[NthOf(FirstOfUrl(Loaded), k)]
    /\ \A k \in 1..Len(db) : \A i \in 1..Len(file) :
         file[i].url = db[k].url => RelevanceOf(db[k]) >= file[i].relevance

\* C13, amended: with unique_bangs set, of every url of the file exactly one
\* bang is left, the first of that url in the loaded order, whatever the
\* relevance of the records; the bangs left keep their order
C13_DedupKeepsFirstLoaded ==
  (Constructed /\ config.unique_bangs) =>
    /\ \A i \in 1..Len(file) :
         Cardinality({k \in 1..Len(db) : db[k].url = file[i].url}) = 1
    /\ Len(db) = Cardinality(FirstOfUrl(Loaded))
    /\ \A k \in 1..Len(db) : db[k] = Loaded[NthOf(FirstOfUrl(Loaded), k)]

\* three different bangs of one url were loaded and unique_bangs left the
\* first of them
C13_Witness ==
  /\ Constructed
  /\ config.unique_bangs
  /\ Cardinality({Loaded[i] : i \in 1..Len(Loaded)}) = 3
  /\ Len(db) = 1
  /\ db[1] = Loaded[1]

\* the number of times a record occurs in a file
Occurrences(records, r) == Cardinality({i \in 1..Len(records) : records[i] = r})

\* two files hold the same records, in any order
SameRecords(f, g) ==
  /\ Len(f) = Len(g)
  /\ \A i \in 1..Len(f) : Occurrences(f, f[i]) = Occurrences(g, f[i])

\* loading any file of the same records gives the database of this state
LoadIsDeterministic ==
  \A f \in Files : SameRecords(f, file) => DefaultDb(f, config.unique_bangs) = db

\* C14: the database App::default leaves is in descending order of relevance,
\* and loading the same records in any arrival order gives the same database
C14_DescendingByRelevance ==
  Constructed =>
    /\ \A i \in 1..Len(db) : \A j \in i..Len(db) :
         RelevanceOf(db[i]) >= RelevanceOf(db[j])
    /\ LoadIsDeterministic

\* C14, amended: the database App::default leaves is in descending order of
\* the comparison of bangs (trigger, url, metadata, title, category,
\* sub_category), it holds the bangs of the file when unique_bangs is not set,
\* and loading the same records in any arrival order gives the same database
C14_DescendingByComparison ==
  Constructed =>
    /\ \A i \in 1..Len(db) : \A j \in i..Len(db) : CmpBang(db[i], db[j]) >= 0
    /\ ~config.unique_bangs =>
         /\ Len(db) = Len(file)
         /\ \A i \in 1..Len(file) :
              Occurrences(db, Deserialize(file[i]))
                = Occurrences(FromSlice(file), Deserialize(file[i]))
    /\ LoadIsDeterministic

\* three different bangs were loaded and the sort changed their order
C14_Witness ==
  /\ Constructed
  /\ ~config.unique_bangs
  /\ Cardinality({db[i] : i \in 1..Len(db)}) = 3
  /\ db # FromSlice(file)

\* string x is lexicographically greater than string y: at the first position
\* where they differ x has the greater character, or y ends there
LexGreater(x, y) ==
  \E k \in 1..Len(x) :
    /\ \A j \in 1..(k - 1) : j <= Len(y) /\ x[j] = y[j]
    /\ k > Len(y) \/ (x[k] # y[k] /\ CharCode(x[k]) > CharCode(y[k]))

Terminals(resps) == {i \in 1..Len(resps) : resps[i].type \in {"Finished", "Close", "Fill"}}

\* C16: the responses of a request are well formed: a search sends items and
\* then exactly one Finished, nothing after it; a complete sends one Fill or
\* nothing; an activate sends exactly one Close; no request sends two
\* terminal responses
C16_ResponsesWellFormed ==
  /\ req.kind = "Search" =>
       /\ out # <<>>
       /\ out[Len(out)] = RespFinished
       /\ \A i \in 1..(Len(out) - 1) : out[i].type = "Append"
  /\ req.kind = "Complete" => (out = <<>> \/ (Len(out) = 1 /\ out[1].type = "Fill"))
  /\ req.kind = "Activate" => out = <<RespClose>>
  /\ Cardinality(Terminals(out)) <= 1

\* a search has sent two items and Finished
C16_Witness ==
  /\ req.kind = "Search"
  /\ Len(out) = 3
  /\ out[3] = RespFinished

\* C17: every search, whatever its query and whatever the state before,
\* replaces the tokens: afterwards they are the tokens of the raw query, in
\* order
C17_SearchReplacesTokens ==
  [][req'.kind = "Search" => search' = TokensOf(req'.query)]_vars

\* C17, amended: a search whose query starts with the plugin prefix replaces
\* the tokens by the tokens of the query after that prefix, in order, and no
\* token of the query before remains; a search whose query does not start
\* with it leaves the tokens as they were
C17_PrefixedSearchReplacesTokens ==
  [][req'.kind = "Search" =>
       IF StartsWith(req'.query, PLUGIN_PREFIX)
         THEN search' = TokensOf(Tail(req'.query))
         ELSE search' = search]_vars

\* a search has replaced the tokens of a search that had results by a single
\* free-text token
C17_Witness ==
  /\ SearchedWithPrefix
  /\ search = << <<"G">> >>
  /\ results # <<>>

\* the requests that are malformed or none of Search, Complete, Activate, Exit
Dropped == {"Other", "Malformed", "Unreadable"}

\* C18: a request that is malformed or none of Search, Complete and Activate
\* sends no response, leaves the tokens and the results map as they were and
\* leaves main reading requests; an Exit ends main, and nothing is handled
\* after it
C18_DroppedRequestsLeaveSession ==
  [][ /\ (req'.kind \in Dropped) =>
           (out' = <<>> /\ search' = search /\ results' = results /\ running')
      /\ (req'.kind = "Exit") => ~running'
      /\ req.kind # "Exit" ]_vars

\* C19: a complete that takes effect pops a token that starts with the
\* indicator, so the free-text tokens, and the query activate substitutes,
\* are the same before and after it
C19_CompletePopsShortcutOnly ==
  [][ (req'.kind = "Complete" /\ HasFill(out')) =>
        /\ LastIsShortcut(search)
        /\ FreeText(search') = FreeText(search)
        /\ GetSearchQuery(search') = GetSearchQuery(search) ]_vars

\* C20: in every state the keys of the results map are 1..k for a k of at
\* most max_limit and every value is the trigger of a bang of the database,
\* so a complete on a key of the map finds its bang and fills the query
C20_ResultsKeysAndValues ==
  /\ DOMAIN results = 1..Cardinality(DOMAIN results)
  /\ Cardinality(DOMAIN results) <= config.max_limit
  /\ \A id \in DOMAIN results : \E i \in 1..Len(db) : db[i].trigger = results[id]
  /\ (req.kind = "Complete" /\ req.id \in DOMAIN results) =>
       (Len(out) = 1 /\ out[1].type = "Fill")

\* a complete on the last of max_limit keys has filled the query
C20_Witness ==
  /\ req.kind = "Complete"
  /\ Cardinality(DOMAIN results) = MaxLimit
  /\ req.id = MaxLimit
  /\ config.max_limit = MaxLimit
  /\ out # <<>>

\* C21: an activate leaves the tokens, the results map, the database and the
\* configuration with its default_bangs as they were, so an activate that
\* follows an activate opens the same urls in the same order
C21_ActivateKeepsSession ==
  [][ (req'.kind = "Activate") =>
        /\ search' = search
        /\ results' = results
        /\ db' = db
        /\ cache' = cache
        /\ config' = config
        /\ (req.kind = "Activate") => opened' = opened ]_vars

\* an activate has opened two urls and the tokens and the results map of the
\* search before are still there
C21_Witness ==
  /\ req.kind = "Activate"
  /\ Len(opened) = 2
  /\ Len(search) = 2
  /\ results # <<>>

\* C22: when a complete has sent a Fill, a search of the text of that Fill
\* leaves exactly the tokens the complete left, in the same order
C22_FillRoundTrip ==
  [][ (/\ req.kind = "Complete"
       /\ HasFill(out)
       /\ req'.kind = "Search"
       /\ req'.query = out[1].text) => search' = search ]_vars

\* the text of a Fill of two tokens, a free-text token and a bang, was
\* searched and the tokens are those two
C22_Witness ==
  /\ req.kind = "Search"
  /\ Len(search) = 2
  /\ req.query = <<"!", " ">> \o search[1] \o <<" ">> \o search[2]
  /\ IsFreeText(search[1])
  /\ IsShortcut(search[2])

====
